---- MODULE Spec2Model ----
(***************************************************************************)
(* Dataflow evaluation and caching engine of the feed editor               *)
(* (src/app/feed/feedgenerator.ts, component Home): the node and edge      *)
(* state, the handlers that change it, the manually invalidated pipe cache *)
(* and the recursive loadCache that fills it.                              *)
(*                                                                         *)
(* JavaScript arrays are objects: a bundle maps a handle id to a REFERENCE *)
(* into `heap`, so that `inputData[h] = handleInput` shares the upstream   *)
(* array and `push` changes it in place, as the code does.                 *)
(***************************************************************************)
EXTENDS Integers, Sequences, FiniteSets, TLC

\* ---------------------------------------------------------------- bounds
\* user-added nodes per session (currentNodeId never exceeds it)
MaxNodes == 2
\* edges the user connects in Spec
MaxEdges == 4
\* invalidating handler calls React batches before it renders again
MaxBatch == 1

\* string values that flow through the pipes
Values == {"a", "b"}
\* regular expressions a Regex node is configured with
Patterns == {".", "a"}
\* regular expressions with capture groups, for the Regex nodes of SpecChain
CapturePatterns == {"(a)|(b)"}
\* node types the user adds from the node bar in Spec
AddableTypes == {"textInputNode", "regexNode"}
\* target handles of the Feed node the user connects to in Spec
SpecFeedTargets == {"title", "language"}

\* ------------------------------------------------------------ node types
H(id, optional) == [id |-> id, optional |-> optional]

\* the `handles` property of each node component
nodeHandles ==
    [ demoInputNode  |-> [source |-> <<H("text-out", FALSE)>>, target |-> <<>>],
      htmlInputNode  |-> [source |-> <<H("html-out", FALSE)>>, target |-> <<>>],
      textInputNode  |-> [source |-> <<H("text-out", FALSE)>>, target |-> <<>>],
      regexNode      |-> [source |-> <<H("data-out", FALSE)>>,
                          target |-> <<H("data-in", FALSE)>>],
      xpathNode      |-> [source |-> <<H("data-out", FALSE)>>,
                          target |-> <<H("data-in", FALSE)>>],
      feedOutputNode |-> [source |-> <<H("feed-out", FALSE)>>,
                          target |-> << H("title", FALSE), H("link", FALSE),
                                        H("description", FALSE), H("language", TRUE),
                                        H("item-title", FALSE), H("item-link", FALSE),
                                        H("item-description", TRUE),
                                        H("item-author", TRUE) >>] ]

BadConfigPipe == [kind |-> "BadConfig"]
ErrPipe(e) == [kind |-> "Err", error |-> e]
OkPipe(m) == [kind |-> "Ok", mapper |-> m]

newNode(id, type) ==
    [id |-> id, type |-> type, selected |-> FALSE,
     data |-> [pipeValue |-> BadConfigPipe, handles |-> nodeHandles[type]]]

\* node ids are nodeId.toString(): ToString of the TLC module

initialNodes == [id \in {"Feed"} |-> newNode("Feed", "feedOutputNode")]

Range(s) == {s[i] : i \in 1..Len(s)}
EmptyFn == [x \in {} |-> x]

\* --------------------------------------------------------------- mappers
\* A PipeMapper is described by the closure the node component builds:
\*   [kind |-> "text",  port, text]   () => ({port: [text]})
\*   [kind |-> "regex", pattern]      RegexNode map
\*   [kind |-> "feed",  feedType]     FeedOutputNode map
TextMapper(port, v) == [kind |-> "text", port |-> port, text |-> v]
RegexMapper(p) == [kind |-> "regex", pattern |-> p]
FeedMapper(t) == [kind |-> "feed", feedType |-> t]

\* the JavaScript value undefined as an array element (not a string)
undefined == "<undefined>"

\* the values pushed for value.matchAll(regexp) on a one-character value:
\* the match itself, or with capture groups match.slice(1), in which a group
\* that did not take part is undefined
MatchAll(pattern, value) ==
    CASE pattern = "(a)|(b)" ->
            IF value = "a" THEN <<"a", undefined>>
            ELSE IF value = "b" THEN <<undefined, "b">>
            ELSE <<>>
      [] OTHER ->
            IF pattern = "." \/ pattern = value THEN <<value>> ELSE <<>>

RECURSIVE FlatMap(_, _)
FlatMap(pattern, values) ==
    IF values = <<>> THEN <<>>
    ELSE MatchAll(pattern, Head(values)) \o FlatMap(pattern, Tail(values))

\* the RegexNode map reads values.flatMap of an undefined list, or
\* value.matchAll of an undefined value
RegexMapThrows(input) ==
    \/ "data-in" \notin DOMAIN input
    \/ undefined \in Range(input["data-in"])

Threw == [thrown |-> TRUE, out |-> EmptyFn]
Returned(out) == [thrown |-> FALSE, out |-> out]

\* new XMLSerializer().serializeToString(feedDocument): the document is
\* kept as its root tag followed by the text of its title (titleList[0],
\* no text when that is undefined).
Serialize(feedType, input) ==
    (IF feedType = "Atom" THEN "<feed>" ELSE "<rss>")
    \o (IF input["title"] = <<>> \/ input["title"][1] = undefined
        THEN "" ELSE input["title"][1])

\* Math.max(itemTitle.length, itemDescription?.length ?? 0)
ItemCount(input) ==
    LET t == Len(input["item-title"])
        d == IF "item-description" \in DOMAIN input
             THEN Len(input["item-description"]) ELSE 0
    IN IF t >= d THEN t ELSE d

\* the FeedOutputNode map reads .length or an index of an undefined list
FeedMapThrows(input) ==
    \/ "item-title" \notin DOMAIN input
    \/ "item-link" \notin DOMAIN input /\ ItemCount(input) > 0
    \/ \E h \in {"title", "link", "description"} : h \notin DOMAIN input

\* pipeValue.mapper(inputData); `input` is the bundle by value at the call
ApplyMapper(mapper, input) ==
    CASE mapper.kind = "text" ->
            Returned((mapper.port :> <<mapper.text>>))
      [] mapper.kind = "regex" ->
            IF RegexMapThrows(input) THEN Threw
            ELSE Returned(("data-out" :> FlatMap(mapper.pattern, input["data-in"])))
      [] mapper.kind = "feed" ->
            IF FeedMapThrows(input) THEN Threw
            ELSE Returned(("feed-out" :> <<Serialize(mapper.feedType, input)>>))

\* ------------------------------------------------------------- variables
VARIABLES
    nodes,           \* useState(initialNodes): id -> Node<NodeProperties>
    edges,           \* useState([]): sequence of edges
    currentNodeId,   \* useRef(0)
    pipeCache,       \* useRef({}): id -> CacheEntry, bundles hold references
    pipeCacheValid,  \* useRef(false)
    heap,            \* the arrays the cache's bundles refer to
    pc,              \* "idle" | "render" | "crashed"
    queue,           \* node ids the recompute loop has still to visit
    pending,         \* invalidating handler calls since the last render
    lastOp,          \* the handler or step taken last
    calls,           \* id -> the inputs (by value) its mapper was invoked with
                     \*       since the cache was cleared, one per invocation
    given,           \* id -> input bundle (by value) its entry was computed from
    produced,        \* id -> bundle (by value) its mapper returned
    stale,           \* ids whose entry was computed before the last mutation
    visited,         \* node ids the recompute loop has called loadCache for
    delivered,       \* the message the step just taken handed to handleNodeMessage
    fetches,         \* the client_fetch promises that have not settled yet
    config,          \* id of an HTML node -> its latest configuration: how many
                     \*       it has had, and the pipe value that one led to
    mounted,         \* ids of the nodes whose component has been rendered
    effects,         \* ids of the components whose useEffect callback has still
                     \*       to run after the last render
    used,            \* every id a node has had so far
    local            \* id of a Regex node -> the state of its component:
                     \*       prevRegex, regexString and the text last submitted

vars == <<nodes, edges, currentNodeId, pipeCache, pipeCacheValid, heap, pc,
          queue, pending, lastOp, calls, given, produced, stale, visited,
          delivered, fetches, config, mounted, effects, used, local>>

NoMessage == [kind |-> "none"]
\* a step that hands no message to handleNodeMessage
NoDelivery == delivered' = NoMessage
\* a step of the editor itself: no fetch starts or settles
NoFetch == UNCHANGED <<fetches, config>>
\* a step in which no component is mounted and no effect runs
NoEffect == UNCHANGED <<mounted, effects>>
\* a step that assigns no id and leaves the state of the components alone
NoInput == UNCHANGED <<used, local>>

\* ------------------------------------------------------------- loadCache
\* for (let nodeID in nodes): integer-like keys ascending, then "Feed"
RECURSIVE KeysFrom(_, _, _)
KeysFrom(ns, i, left) ==
    IF left = 0 THEN (IF "Feed" \in DOMAIN ns THEN <<"Feed">> ELSE <<>>)
    ELSE IF ToString(i) \in DOMAIN ns
         THEN <<ToString(i)>> \o KeysFrom(ns, i + 1, left - 1)
         ELSE KeysFrom(ns, i + 1, left)
KeyOrder(ns) == KeysFrom(ns, 0, Cardinality(DOMAIN ns \ {"Feed"}))

Deref(hp, bundle) == [h \in DOMAIN bundle |-> hp[bundle[h]]]

\* a cache entry with its arrays read out of the heap
EntryValue(hp, e) ==
    IF e.kind = "output"
    THEN [kind |-> "output", input |-> Deref(hp, e.input), output |-> Deref(hp, e.output)]
    ELSE [kind |-> "error", input |-> Deref(hp, e.input), error |-> e.error]

CacheValue(cache, hp) == [n \in DOMAIN cache |-> EntryValue(hp, cache[n])]

\* variant: only successful outputs are taken from the cache
CacheHitOutputOnly(cache, nodeID) ==
    nodeID \in DOMAIN cache /\ cache[nodeID].kind = "output"

\* if (pipeCache.current[nodeID])
CacheHit(cache, nodeID) == nodeID \in DOMAIN cache

\* variant: the computed entry is returned but not stored
StoreEntryDropped(cache, nodeID, entry) == cache

\* pipeCache.current[nodeID] = cacheEntry
StoreEntry(cache, nodeID, entry) ==
    [n \in DOMAIN cache \cup {nodeID} |-> IF n = nodeID THEN entry ELSE cache[n]]

\* "Multiple inputs get appended": push onto the array already at the
\* target handle, or make the upstream array itself the input
AppendInput(hp, inputData, targetHandle, handleInput) ==
    IF targetHandle \in DOMAIN inputData
    THEN [heap |-> [hp EXCEPT ![inputData[targetHandle]] = @ \o hp[handleInput]],
          input |-> inputData]
    ELSE [heap |-> hp,
          input |-> (targetHandle :> handleInput) @@ inputData]

\* variant: the required-input check is left out
MissingInputNever(handle, hp, inputData) == FALSE

\* variant: the negation of handle.optional is lost
MissingInputOptionalOnly(handle, hp, inputData) ==
    /\ handle.optional
    /\ \/ handle.id \notin DOMAIN inputData
       \/ Len(hp[inputData[handle.id]]) = 0

\* variant: optional handles are required too
MissingInputAnyHandle(handle, hp, inputData) ==
    \/ handle.id \notin DOMAIN inputData
    \/ Len(hp[inputData[handle.id]]) = 0

\* (!handle.optional) && (inputData[handle.id] == undefined || length == 0)
MissingInput(handle, hp, inputData) ==
    /\ ~handle.optional
    /\ \/ handle.id \notin DOMAIN inputData
       \/ Len(hp[inputData[handle.id]]) = 0

\* the arrays of a bundle the mapper returned, as new heap objects
RECURSIVE Alloc(_, _, _)
Alloc(hp, out, refs) ==
    IF DOMAIN out = DOMAIN refs THEN [heap |-> hp, bundle |-> refs]
    ELSE LET h == CHOOSE x \in DOMAIN out \ DOMAIN refs : TRUE
         IN Alloc(Append(hp, out[h]), out, (h :> (Len(hp) + 1)) @@ refs)

NoThrow == "none"

\* variant: what the mapper did is taken as its output
MapperNeverFails(node, r) == FALSE

\* catch (e), or an output handle that is not a key of outputData
MapperFailed(node, r) ==
    \/ r.thrown
    \/ \E i \in 1..Len(node.data.handles.source) :
          node.data.handles.source[i].id \notin DOMAIN r.out

\* switch (pipeValue.kind): the cache entry of a node from its input data.
\* st is the engine's store [cache, heap, calls, given, produced, thrown, ret,
\* deep]: deep is the deepest nesting of loadCache calls so far.
CalcCache(node, nodeID, inputData, st) ==
    LET pipeValue == node.data.pipeValue
        err(msg)  == [kind |-> "error", input |-> inputData, error |-> msg]
    IN
    CASE pipeValue.kind = "BadConfig" ->
            [st |-> st, entry |-> err("Node configuration is invalid")]
      [] pipeValue.kind = "Err" ->
            [st |-> st, entry |-> err(pipeValue.error)]
      [] pipeValue.kind = "Ok" ->
            IF \E i \in 1..Len(node.data.handles.target) :
                   MissingInput(node.data.handles.target[i], st.heap, inputData)
            THEN [st |-> st, entry |-> err("Missing input")]
            ELSE
            LET arg == Deref(st.heap, inputData)
                r   == ApplyMapper(pipeValue.mapper, arg)
                st1 == [st EXCEPT !.calls =
                           [n \in DOMAIN st.calls \cup {nodeID} |->
                               IF n = nodeID
                               THEN (IF n \in DOMAIN st.calls THEN st.calls[n] ELSE <<>>)
                                    \o <<arg>>
                               ELSE st.calls[n]]]
            IN
            IF MapperFailed(node, r)
            THEN [st |-> st1, entry |-> err("Error in node implementation")]
            ELSE
            LET a == Alloc(st1.heap, r.out, EmptyFn)
            IN [st |-> [st1 EXCEPT !.heap = a.heap,
                                   !.produced = (nodeID :> r.out) @@ st1.produced],
                entry |-> [kind |-> "output", input |-> inputData, output |-> a.bundle]]

\* variant: the recursion follows the edge the wrong way
EdgeSourceIsTarget(edge) == edge.target

\* loadCache(edge.source)
EdgeSource(edge) == edge.source

RECURSIVE LoadCache(_, _, _, _)
RECURSIVE GatherInput(_, _, _, _, _, _)

\* for (let edge of edges) if (edge.target == nodeID) ...
GatherInput(g, st, inputData, i, nodeID, depth) ==
    IF i > Len(g.edges) \/ st.thrown # NoThrow
    THEN [st |-> st, input |-> inputData]
    ELSE
    LET edge == g.edges[i] IN
    IF edge.target # nodeID
    THEN GatherInput(g, st, inputData, i + 1, nodeID, depth)
    ELSE
    LET st1 == LoadCache(g, st, EdgeSource(edge), depth + 1) IN
    IF st1.thrown # NoThrow
    THEN [st |-> st1, input |-> inputData]
    ELSE
    LET up == st1.ret IN
    \* loadCache(edge.source).output?.[edge.sourceHandle]
    IF up.kind = "output" /\ edge.sourceHandle \in DOMAIN up.output
    THEN LET a == AppendInput(st1.heap, inputData, edge.targetHandle,
                              up.output[edge.sourceHandle])
         IN GatherInput(g, [st1 EXCEPT !.heap = a.heap], a.input, i + 1, nodeID, depth)
    ELSE GatherInput(g, st1, inputData, i + 1, nodeID, depth)

\* loadCache(nodeID) on the graph g = [nodes, edges].  A call for an id that
\* is not in `nodes` throws a TypeError (nodes[nodeID].data); a call chain
\* longer than the number of nodes revisits a node that has no entry yet and
\* so never ends: the engine throws a RangeError (stack overflow).
LoadCache(g, st0, nodeID, depth) ==
    IF st0.thrown # NoThrow THEN st0
    ELSE
    LET st == [st0 EXCEPT !.deep = IF depth > @ THEN depth ELSE @] IN
    IF CacheHit(st.cache, nodeID) THEN [st EXCEPT !.ret = st.cache[nodeID]]
    ELSE IF nodeID \notin DOMAIN g.nodes THEN [st EXCEPT !.thrown = "TypeError"]
    ELSE IF depth > Cardinality(DOMAIN g.nodes) THEN [st EXCEPT !.thrown = "RangeError"]
    ELSE
    LET gi == GatherInput(g, st, EmptyFn, 1, nodeID, depth) IN
    IF gi.st.thrown # NoThrow THEN gi.st
    ELSE
    LET seen == [gi.st EXCEPT !.given =
                    (nodeID :> Deref(gi.st.heap, gi.input)) @@ gi.st.given]
        c == CalcCache(g.nodes[nodeID], nodeID, gi.input, seen)
    IN [c.st EXCEPT !.cache = StoreEntry(c.st.cache, nodeID, c.entry),
                    !.ret = c.entry]

NoEntry == [kind |-> "none"]

\* variant: the recompute keeps the old table
ClearCacheKept(cache) == cache

\* pipeCache.current = {}
ClearCache(cache) == EmptyFn

Store(cache, hp, cl, gv, pr) ==
    [cache |-> cache, heap |-> hp, calls |-> cl, given |-> gv, produced |-> pr,
     thrown |-> NoThrow, ret |-> NoEntry, deep |-> 0]

Graph == [nodes |-> nodes, edges |-> edges]

EmptyStore == Store(EmptyFn, <<>>, EmptyFn, EmptyFn, EmptyFn)

\* for (let nodeID in nodes) { loadCache(nodeID); } from an empty table
RECURSIVE LoadAll(_, _, _)
LoadAll(g, st, ids) ==
    IF ids = <<>> \/ st.thrown # NoThrow THEN st
    ELSE LoadAll(g, LoadCache(g, st, Head(ids), 0), Tail(ids))
Recompute(g) == LoadAll(g, EmptyStore, KeyOrder(g.nodes))

\* ------------------------------------------------------------------ Init
Init ==
    /\ nodes = initialNodes
    /\ edges = <<>>
    /\ currentNodeId = 0
    /\ pipeCache = EmptyFn
    /\ pipeCacheValid = FALSE
    /\ heap = <<>>
    /\ pc = "idle"
    /\ queue = <<>>
    /\ pending = 0
    /\ lastOp = "init"
    /\ calls = EmptyFn
    /\ given = EmptyFn
    /\ produced = EmptyFn
    /\ stale = {}
    /\ visited = <<>>
    /\ delivered = NoMessage
    /\ fetches = {}
    /\ config = EmptyFn
    /\ mounted = {}
    /\ effects = {}
    /\ used = DOMAIN initialNodes
    /\ local = EmptyFn

\* ---------------------------------------------------------------- render
\* if (!pipeCacheValid.current) { pipeCache.current = {}; ...
RenderStart ==
    /\ pc = "idle"
    /\ effects = {}
    /\ ~pipeCacheValid
    /\ pipeCache' = ClearCache(pipeCache)
    /\ heap' = IF pipeCache' = EmptyFn THEN <<>> ELSE heap
    /\ calls' = EmptyFn
    /\ given' = [n \in DOMAIN pipeCache' \cap DOMAIN given |-> given[n]]
    /\ produced' = [n \in DOMAIN pipeCache' \cap DOMAIN produced |-> produced[n]]
    /\ stale' = stale \cap DOMAIN pipeCache'
    /\ queue' = KeyOrder(nodes)
    /\ visited' = <<>>
    /\ pc' = "render"
    /\ lastOp' = "renderStart"
    /\ NoDelivery /\ NoFetch /\ NoEffect /\ NoInput
    /\ UNCHANGED <<nodes, edges, currentNodeId, pipeCacheValid, pending>>

\* ... for (let nodeID in nodes) { loadCache(nodeID); } ...
RenderLoad ==
    /\ pc = "render"
    /\ queue # <<>>
    /\ \E st \in {LoadCache(Graph, Store(pipeCache, heap, calls, given, produced),
                              Head(queue), 0)} :
          /\ pipeCache' = st.cache
          /\ heap' = st.heap
          /\ calls' = st.calls
          /\ given' = st.given
          /\ produced' = st.produced
          /\ stale' = stale \ (DOMAIN st.cache \ DOMAIN pipeCache)
          /\ IF st.thrown # NoThrow
             THEN /\ pc' = "crashed"
                  /\ lastOp' = st.thrown
                  /\ UNCHANGED <<queue, visited>>
             ELSE /\ pc' = "render"
                  /\ lastOp' = "loadCache"
                  /\ queue' = Tail(queue)
                  /\ visited' = Append(visited, Head(queue))
    /\ NoDelivery /\ NoFetch /\ NoEffect /\ NoInput
    /\ UNCHANGED <<nodes, edges, currentNodeId, pipeCacheValid, pending>>

\* variant: no component has an effect
RunsEffectNever(node, mounting) == FALSE

\* useEffect(callback, deps) of a node component: the callback runs after the
\* render that mounts the component; DemoInputNode passes no dependency list,
\* so that its callback runs after every render
RunsEffect(node, mounting) ==
    CASE node.type = "demoInputNode" -> TRUE
      [] node.type \in {"feedOutputNode", "regexNode", "xpathNode"} -> mounting
      [] OTHER -> FALSE

\* ... pipeCacheValid.current = true; } and the commit of the render
RenderEnd ==
    /\ pc = "render"
    /\ queue = <<>>
    /\ pipeCacheValid' = TRUE
    /\ pc' = "idle"
    /\ pending' = 0
    /\ lastOp' = "renderEnd"
    /\ mounted' = DOMAIN nodes
    /\ effects' = {n \in DOMAIN nodes : RunsEffect(nodes[n], n \notin mounted)}
    /\ NoDelivery /\ NoFetch /\ NoInput
    /\ UNCHANGED <<nodes, edges, currentNodeId, pipeCache, heap, queue, calls,
                   given, produced, stale, visited>>

\* handlers run once the component is mounted, between renders
CanHandle ==
    /\ pc = "idle"
    /\ effects = {}
    /\ pipeCacheValid \/ pending > 0
    /\ pending < MaxBatch

\* the flag and the ghosts after a handler that invalidates the cache
Invalidated(op) ==
    /\ pipeCacheValid' = FALSE
    /\ pending' = pending + 1
    /\ stale' = DOMAIN pipeCache
    /\ lastOp' = op
    /\ UNCHANGED <<pipeCache, heap, pc, queue, calls, given, produced, visited>>

\* ---------------------------------------------------------- node changes
\* variant: only additions invalidate
NodesChangeInvalidatesAddOnly(changes) ==
    \E i \in 1..Len(changes) : changes[i].type = "add"

\* variant: every change invalidates
NodesChangeInvalidatesAny(changes) == changes # <<>>

\* changes.some((change) => change.type == "remove" || change.type == "add")
NodesChangeInvalidates(changes) ==
    \E i \in 1..Len(changes) : changes[i].type \in {"remove", "add"}

\* applyNodeChanges(changes, Object.values(nds)).reduce(...)
RECURSIVE applyNodeChanges(_, _)
applyNodeChanges(changes, nds) ==
    IF changes = <<>> THEN nds
    ELSE LET c == Head(changes)
             next == CASE c.type = "add" ->
                            (c.item.id :> c.item) @@ nds
                       [] c.type = "remove" ->
                            [n \in DOMAIN nds \ {c.id} |-> nds[n]]
                       [] c.type = "select" /\ c.id \in DOMAIN nds ->
                            [nds EXCEPT ![c.id].selected = c.selected]
                       \* "position", "dimensions": fields the model leaves out
                       [] OTHER -> nds
         IN applyNodeChanges(Tail(changes), next)

onNodesChange(changes, op) ==
    /\ nodes' = applyNodeChanges(changes, nodes)
    /\ IF NodesChangeInvalidates(changes)
       THEN Invalidated(op)
       ELSE /\ lastOp' = op
            /\ UNCHANGED <<pipeCache, pipeCacheValid, heap, pc, queue, pending,
                           calls, given, produced, stale, visited>>

\* variant: the counter is left where it was
PostIncrementKept(n) == n

\* currentNodeId.current++
PostIncrement(n) == n + 1

\* NodeBar addNode: const nodeId = currentNodeId.current++; onNodesChange([add])
AddNode(type) ==
    /\ CanHandle
    /\ currentNodeId < MaxNodes
    /\ currentNodeId' = PostIncrement(currentNodeId)
    /\ onNodesChange(<<[type |-> "add",
                        item |-> newNode(ToString(currentNodeId), type)]>>, "addNode")
    /\ used' = used \cup {ToString(currentNodeId)}
    /\ NoDelivery /\ NoFetch /\ NoEffect
    /\ UNCHANGED <<edges, local>>

\* the user deletes a node (the Feed node is created with deletable: false)
RemoveNode(id) ==
    /\ CanHandle
    /\ id \in DOMAIN nodes \ {"Feed"}
    /\ onNodesChange(<<[type |-> "remove", id |-> id]>>, "removeNode")
    /\ NoDelivery /\ NoFetch /\ NoEffect /\ NoInput
    /\ UNCHANGED <<edges, currentNodeId>>

\* the user clicks a node or the pane: ReactFlow reports a "select" change
SelectNode(id, selected) ==
    /\ CanHandle
    /\ id \in DOMAIN nodes
    /\ nodes[id].selected # selected
    /\ onNodesChange(<<[type |-> "select", id |-> id, selected |-> selected]>>,
                     "selectNode")
    /\ NoDelivery /\ NoFetch /\ NoEffect /\ NoInput
    /\ UNCHANGED <<edges, currentNodeId>>

\* the user drags a node: ReactFlow reports "position" changes, and
\* "dimensions" changes once a node has been measured
MoveNode(id, type) ==
    /\ CanHandle
    /\ id \in DOMAIN nodes
    /\ onNodesChange(<<[type |-> type, id |-> id]>>, "moveNode")
    /\ NoDelivery /\ NoFetch /\ NoEffect /\ NoInput
    /\ UNCHANGED <<edges, currentNodeId>>

\* ---------------------------------------------------------- edge changes
\* variant: only additions invalidate
EdgesChangeInvalidatesAddOnly(changes) ==
    \E i \in 1..Len(changes) : changes[i].type = "add"

\* changes.some((change) => change.type == "remove" || change.type == "add")
EdgesChangeInvalidates(changes) ==
    \E i \in 1..Len(changes) : changes[i].type \in {"remove", "add"}

\* applyEdgeChanges(changes, eds); an edge is identified by its endpoints
applyEdgeChanges(changes, eds) ==
    LET removed == {changes[i].edge : i \in {j \in 1..Len(changes) :
                                                 changes[j].type = "remove"}}
        keep(e) == e \notin removed
    IN SelectSeq(eds, keep)

onEdgesChange(changes, op) ==
    /\ edges' = applyEdgeChanges(changes, edges)
    /\ IF EdgesChangeInvalidates(changes)
       THEN Invalidated(op)
       ELSE /\ lastOp' = op
            /\ UNCHANGED <<pipeCache, pipeCacheValid, heap, pc, queue, pending,
                           calls, given, produced, stale, visited>>

\* the user deletes an edge
RemoveEdge(i) ==
    /\ CanHandle
    /\ i \in 1..Len(edges)
    /\ onEdgesChange(<<[type |-> "remove", edge |-> edges[i]]>>, "removeEdge")
    /\ NoDelivery /\ NoFetch /\ NoEffect /\ NoInput
    /\ UNCHANGED <<nodes, currentNodeId>>

\* the user clicks an edge: ReactFlow reports a "select" change
SelectEdge(i) ==
    /\ CanHandle
    /\ i \in 1..Len(edges)
    /\ onEdgesChange(<<[type |-> "select", edge |-> edges[i]]>>, "selectEdge")
    /\ NoDelivery /\ NoFetch /\ NoEffect /\ NoInput
    /\ UNCHANGED <<nodes, currentNodeId>>

\* -------------------------------------------------------------- onConnect
Edge(s, sh, t, th) ==
    [source |-> s, sourceHandle |-> sh, target |-> t, targetHandle |-> th]

\* variant: duplicates are added again
ConnectRejectedSelfOnly(eds, newEdge) == newEdge.source = newEdge.target

\* variant: an edge back to a node that feeds its source is dropped too
ConnectRejectedBackEdge(eds, newEdge) ==
    \/ newEdge.source = newEdge.target
    \/ \E i \in 1..Len(eds) :
          \/ /\ eds[i].source = newEdge.source
             /\ eds[i].target = newEdge.target
             /\ eds[i].sourceHandle = newEdge.sourceHandle
             /\ eds[i].targetHandle = newEdge.targetHandle
          \/ /\ eds[i].source = newEdge.target
             /\ eds[i].target = newEdge.source

\* "Do not add edges targeting itself" / "Do not add duplicate edges"
ConnectRejected(eds, newEdge) ==
    \/ newEdge.source = newEdge.target
    \/ \E i \in 1..Len(eds) :
          /\ eds[i].source = newEdge.source
          /\ eds[i].target = newEdge.target
          /\ eds[i].sourceHandle = newEdge.sourceHandle
          /\ eds[i].targetHandle = newEdge.targetHandle

onConnect(newEdge) ==
    IF ConnectRejected(edges, newEdge)
    THEN /\ lastOp' = "connectRejected"
         /\ UNCHANGED <<edges, pipeCache, pipeCacheValid, heap, pc, queue, pending,
                        calls, given, produced, stale, visited>>
    ELSE /\ edges' = Append(edges, newEdge)
         /\ Invalidated("addEdge")

\* variant: every handle of the node's `handles` property is rendered
RenderedHandlesAll(node) == node.data.handles

\* the handles BaseNode renders: FeedOutputNode passes source: []
RenderedHandles(node) ==
    IF node.type = "feedOutputNode"
    THEN [target |-> node.data.handles.target, source |-> <<>>]
    ELSE node.data.handles

\* the connections the user can draw: from a rendered source handle to a
\* rendered target handle
SourceEnds ==
    UNION {{<<s, RenderedHandles(nodes[s]).source[i].id>> :
               i \in 1..Len(RenderedHandles(nodes[s]).source)} : s \in DOMAIN nodes}
TargetEnds ==
    UNION {{<<t, RenderedHandles(nodes[t]).target[i].id>> :
               i \in 1..Len(RenderedHandles(nodes[t]).target)} : t \in DOMAIN nodes}
Connections(targets) ==
    {Edge(se[1], se[2], te[1], te[2]) :
        se \in SourceEnds,
        te \in {x \in TargetEnds : x[1] = "Feed" => x[2] \in targets}}

Connect(newEdge, maxEdges) ==
    /\ CanHandle
    /\ Len(edges) < maxEdges
    /\ onConnect(newEdge)
    /\ NoDelivery /\ NoFetch /\ NoEffect /\ NoInput
    /\ UNCHANGED <<nodes, currentNodeId>>

\* ------------------------------------------------------ handleNodeMessage
OkMessage(id, m) == [fromNode |-> id, kind |-> "Ok", value |-> m]
BadConfigMessage(id) == [fromNode |-> id, kind |-> "BadConfig"]
ErrMessage(id, e) == [fromNode |-> id, kind |-> "Err", error |-> e]

\* the pipeValue a message sets
MessageValue(message) ==
    CASE message.kind = "Ok" -> OkPipe(message.value)
      [] message.kind = "BadConfig" -> BadConfigPipe
      [] message.kind = "Err" -> ErrPipe(message.error)

\* variant: the value is given to every node
SetPipeValueEveryNode(nds, message) ==
    [n \in DOMAIN nds |->
        [nds[n] EXCEPT !.data = [@ EXCEPT !.pipeValue = MessageValue(message)]]]

\* setNodes((nodes) => ({...nodes, [fromNode]: {...nodes[fromNode], data: {...}}}))
SetPipeValue(nds, message) ==
    [nds EXCEPT ![message.fromNode] =
        [@ EXCEPT !.data = [@ EXCEPT !.pipeValue = MessageValue(message)]]]

\* variant: only an Ok message invalidates
MessageInvalidatesOkOnly(message) == message.kind = "Ok"

\* pipeCacheValid.current = false, whatever the message
MessageInvalidates(message) == TRUE

\* For a node that is not in `nodes`, nodes[message.fromNode] is undefined and
\* the updater handed to setNodes throws a TypeError on `.data` when React
\* runs it; Home has no error boundary.
handleNodeMessage(message) ==
    /\ delivered' = message
    /\ IF message.fromNode \in DOMAIN nodes
       THEN /\ nodes' = SetPipeValue(nodes, message)
            /\ IF MessageInvalidates(message)
               THEN Invalidated("setPipeValue")
               ELSE /\ lastOp' = "setPipeValue"
                    /\ UNCHANGED <<pipeCache, pipeCacheValid, heap, pc, queue,
                                   pending, calls, given, produced, stale, visited>>
       ELSE /\ pipeCacheValid' = (pipeCacheValid /\ ~MessageInvalidates(message))
            /\ pc' = "crashed"
            /\ lastOp' = "TypeError"
            /\ UNCHANGED <<nodes, pipeCache, heap, queue, pending, calls, given,
                           produced, stale, visited>>
    /\ UNCHANGED <<edges, currentNodeId>>

\* the Reuters article the demo node feeds into the editor
DEMO_DOCUMENT == "<demo>"

\* useState(null as string | null)
null == "<null>"
\* expressions new RegExp rejects
InvalidPatterns == {"("}
\* new RegExp(regex) returns
Compiles(regex) == regex \notin InvalidPatterns

\* the state of the component of Regex node `id`: useRef(""), useState(null);
\* `submitted` is the text of the field at the last blur
Local(id) ==
    IF id \in DOMAIN local THEN local[id]
    ELSE [prevRegex |-> "", regexString |-> null, submitted |-> null]

\* variant: the demo node sends its document after every render
EffectMessagesAlways(id, node) ==
    CASE node.type = "feedOutputNode" -> {OkMessage(id, FeedMapper("RSS"))}
      [] node.type \in {"regexNode", "xpathNode"} -> {BadConfigMessage(id)}
      [] node.type = "demoInputNode" ->
            {OkMessage(id, TextMapper("text-out", DEMO_DOCUMENT))}
      [] OTHER -> {}

\* the message the useEffect callback of a node component sends
EffectMessages(id, node) ==
    CASE node.type = "feedOutputNode" -> {OkMessage(id, FeedMapper("RSS"))}
      [] node.type = "regexNode" ->
            IF Local(id).regexString # null
            THEN IF Compiles(Local(id).regexString)
                 THEN {OkMessage(id, RegexMapper(Local(id).regexString))}
                 ELSE {ErrMessage(id, "Invalid regular expression")}
            ELSE {BadConfigMessage(id)}
      [] node.type = "xpathNode" -> {BadConfigMessage(id)}
      [] node.type = "demoInputNode" ->
            IF node.data.pipeValue.kind # "Ok"
            THEN {OkMessage(id, TextMapper("text-out", DEMO_DOCUMENT))}
            ELSE {}
      [] OTHER -> {}

\* the useEffect callback of the component of node `id` runs
RunEffect(id) ==
    /\ pc = "idle"
    /\ id \in effects
    /\ effects' = effects \ {id}
    /\ IF EffectMessages(id, nodes[id]) = {}
       THEN /\ lastOp' = "effect"
            /\ NoDelivery
            /\ UNCHANGED <<nodes, edges, currentNodeId, pipeCache, pipeCacheValid,
                           heap, pc, queue, pending, calls, given, produced, stale,
                           visited>>
       ELSE \E m \in EffectMessages(id, nodes[id]) : handleNodeMessage(m)
    /\ NoFetch /\ NoInput
    /\ UNCHANGED mounted

\* the messages a Regex node sends when its expression is one of `patterns`,
\* is empty or does not compile
RegexMessages(id, patterns) ==
    {OkMessage(id, RegexMapper(p)) : p \in patterns}
    \cup {BadConfigMessage(id), ErrMessage(id, "Invalid regular expression")}

\* the messages the component of a node sends through onPipeUpdate (Text,
\* Regex and Feed nodes)
Messages(id, type) ==
    CASE type = "textInputNode" ->
            {OkMessage(id, TextMapper("text-out", v)) : v \in Values}
            \cup {BadConfigMessage(id)}
      [] type = "regexNode" -> RegexMessages(id, Patterns)
      [] type = "feedOutputNode" ->
            {OkMessage(id, FeedMapper(t)) : t \in {"RSS", "Atom"}}
      [] OTHER -> {}

\* ------------------------------------------------------------- Regex node
\* if (regex.length > 0 && regex != prevRegex.current)
BlurAccepted(regex, prevRegex) == regex # "" /\ regex # prevRegex

\* the component state after onBlur with `regex` in the field
AfterBlur(state, regex) ==
    IF BlurAccepted(regex, state.prevRegex)
    THEN [prevRegex |-> regex,
          regexString |-> IF Compiles(regex) THEN regex ELSE null,
          submitted |-> regex]
    ELSE [state EXCEPT !.submitted = regex]

\* onBlur of the field of Regex node `id`; setRegex with a new value renders
\* the component again, after which its effect runs
RegexBlur(id, regex) ==
    /\ CanHandle
    /\ id \in DOMAIN nodes \cap mounted
    /\ nodes[id].type = "regexNode"
    /\ local' = (id :> AfterBlur(Local(id), regex)) @@ local
    /\ effects' = IF AfterBlur(Local(id), regex).regexString # Local(id).regexString
                  THEN effects \cup {id} ELSE effects
    /\ lastOp' = "blur"
    /\ NoDelivery /\ NoFetch
    /\ UNCHANGED <<nodes, edges, currentNodeId, pipeCache, pipeCacheValid, heap, pc,
                   queue, pending, calls, given, produced, stale, visited, mounted,
                   used>>

\* -------------------------------------------------------- HTML input node
\* URLs the user types into an HTML input node
Urls == {"http://a.b", "http://c.d"}
\* configurations (blur events) per HTML input node
MaxSubmits == 2

\* response.text() of the document at a URL
Document(url) == "<html>" \o url

\* fetch() and response.text() reject with an exception object (a TypeError
\* or a DOMException)
NetworkError == [type |-> "Error", message |-> "Failed to fetch"]
BodyError == [type |-> "Error", message |-> "Body stream failed"]
\* the shapes of a thrown value the catch callback tells apart: an exception
\* object, a string, an object with toString, an object without prototype
ThrownValues ==
    { NetworkError,
      [type |-> "string", value |-> "aborted"],
      [type |-> "object", string |-> "[object Object]"],
      [type |-> "bare"] }

\* what fetch(url, {credentials: "omit"}) leads to: a response that is ok and
\* whose body can be read, one whose body cannot, one that is not ok, or a
\* rejection
Response(ok, status, statusText, body) ==
    [kind |-> "response", ok |-> ok, status |-> status, statusText |-> statusText,
     body |-> body]
FetchOutcomes(url) ==
    { Response(TRUE, 200, "OK", [read |-> TRUE, text |-> Document(url)]),
      Response(TRUE, 200, "OK", [read |-> FALSE, error |-> BodyError]),
      Response(FALSE, 404, "Not Found", [read |-> TRUE, text |-> "Not Found"]),
      [kind |-> "rejected", error |-> NetworkError] }
\* those, and the rejections the catch callback is written for
SettledOutcomes(url) ==
    FetchOutcomes(url)
    \cup {Response(FALSE, 500, "", [read |-> FALSE, error |-> BodyError])}
    \cup {[kind |-> "rejected", error |-> e] : e \in ThrownValues}

Fulfilled(value) == [state |-> "fulfilled", value |-> value]
Rejected(reason) == [state |-> "rejected", reason |-> reason]

\* .then(async response => response.ok ? {Ok, await response.text()}
\*                                     : {Err, status + " " + statusText})
FetchThen(fromNode, outcome) ==
    IF outcome.kind = "rejected" THEN Rejected(outcome.error)
    ELSE IF outcome.ok
         THEN IF outcome.body.read
              THEN Fulfilled(OkMessage(fromNode, outcome.body.text))
              ELSE Rejected(outcome.body.error)
         ELSE Fulfilled(ErrMessage(fromNode,
                  ToString(outcome.status) \o " " \o outcome.statusText))

\* variant: a rejection is passed on
FetchCatchRethrows(fromNode, promise) == promise

\* .catch(error => ...): the string itself, error.message, error.toString(),
\* String(error) or, when that throws, "unknown error: " + typeof error
FetchCatch(fromNode, promise) ==
    IF promise.state = "fulfilled" THEN promise
    ELSE LET error == promise.reason
         IN CASE error.type = "string" -> Fulfilled(ErrMessage(fromNode, error.value))
              [] error.type = "Error" -> Fulfilled(ErrMessage(fromNode, error.message))
              [] error.type = "object" -> Fulfilled(ErrMessage(fromNode, error.string))
              [] error.type = "bare" ->
                    Fulfilled(ErrMessage(fromNode, "unknown error: object"))

\* how the promise client_fetch(fromNode, url) returns settles
client_fetch(fromNode, outcome) == FetchCatch(fromNode, FetchThen(fromNode, outcome))

\* the server action: the same chain, run by the server
server_fetch(fromNode, outcome) == FetchCatch(fromNode, FetchThen(fromNode, outcome))

\* the messages the .then callback of the HTML input node can be called with
FetchResults(fromNode, url) ==
    {promise.value : promise \in {q \in {client_fetch(fromNode, outcome) :
                                             outcome \in FetchOutcomes(url)} :
                                      q.state = "fulfilled"}}

\* (documentText) => (_input) => ({"html-out": [documentText]}), as a
\* function of the document
HtmlMapper ==
    [documentText \in {Document(url) : url \in Urls} |->
        TextMapper("html-out", documentText)]

mapMessage(message, map) ==
    IF message.kind = "Ok" THEN [message EXCEPT !.value = map[@]] ELSE message

Pending == [kind |-> "pending"]
Count(id) == IF id \in DOMAIN config THEN config[id].count ELSE 0
Configured(id, value) == (id :> [count |-> Count(id) + 1, value |-> value]) @@ config

Mounted(id) ==
    /\ pc = "idle"
    /\ effects = {}
    /\ pipeCacheValid \/ pending > 0
    /\ id \in DOMAIN nodes \cap mounted
    /\ nodes[id].type = "htmlInputNode"

\* onBlur with a valid URL: client_fetch(nodeID, value) is started; its
\* .then runs when the promise settles
HtmlBlurValid(id, url) ==
    /\ Mounted(id)
    /\ Count(id) < MaxSubmits
    /\ fetches' = fetches \cup {[fromNode |-> id, url |-> url, seq |-> Count(id) + 1]}
    /\ config' = Configured(id, Pending)
    /\ lastOp' = "fetch"
    /\ NoDelivery /\ NoEffect /\ NoInput
    /\ UNCHANGED <<nodes, edges, currentNodeId, pipeCache, pipeCacheValid, heap, pc,
                   queue, pending, calls, given, produced, stale, visited>>

\* onBlur with an invalid field: onPipeUpdate({fromNode, kind: BadConfig})
HtmlBlurInvalid(id) ==
    /\ Mounted(id)
    /\ Count(id) < MaxSubmits
    /\ pending < MaxBatch
    /\ handleNodeMessage(BadConfigMessage(id))
    /\ config' = Configured(id, BadConfigPipe)
    /\ NoEffect /\ NoInput
    /\ UNCHANGED fetches

\* .then((message) => onPipeUpdate(mapMessage(message, ...))) of a fetch
FetchSettles(f, message) ==
    /\ f \in fetches
    /\ CanHandle
    /\ handleNodeMessage(mapMessage(message, HtmlMapper))
    /\ NoEffect /\ NoInput
    /\ fetches' = fetches \ {f}
    /\ config' = IF f.seq = Count(f.fromNode) /\ f.fromNode \in DOMAIN nodes
                 THEN [config EXCEPT ![f.fromNode].value =
                          MessageValue(mapMessage(message, HtmlMapper))]
                 ELSE config

\* ------------------------------------------------------------------ Next
Render == RenderStart \/ RenderLoad \/ RenderEnd

UserAddsNode == \E type \in AddableTypes : AddNode(type)
UserRemovesNode == \E id \in DOMAIN nodes : RemoveNode(id)
UserRemovesEdge == \E i \in 1..Len(edges) : RemoveEdge(i)
NodeSendsMessage ==
    \E id \in DOMAIN nodes : \E m \in Messages(id, nodes[id].type) :
        CanHandle /\ handleNodeMessage(m) /\ NoFetch /\ NoEffect /\ NoInput
EffectRuns == \E id \in effects : RunEffect(id)

Next ==
    \/ Render
    \/ EffectRuns
    \/ UserAddsNode
    \/ UserRemovesNode
    \/ \E e \in Connections(SpecFeedTargets) : Connect(e, MaxEdges)
    \/ UserRemovesEdge
    \/ NodeSendsMessage

Spec == Init /\ [][Next]_vars

\* ------------------------------------------------------- a wired Feed node
\* The session after the user has added a Text node, typed "a" into it and
\* connected it to the five required handles of the Feed node, and the
\* editor has rendered.  From here the optional handles come into play.
FeedRequired == <<"title", "link", "description", "item-title", "item-link">>
\* edges beyond the five wired ones
MaxFeedExtra == 2
\* optional target handles of the Feed node the user connects to in SpecFeed
FeedExtraTargets == {"language"}

WiredNodes ==
    SetPipeValue(
        SetPipeValue(
            applyNodeChanges(<<[type |-> "add", item |-> newNode("0", "textInputNode")]>>,
                             initialNodes),
            OkMessage("0", TextMapper("text-out", "a"))),
        OkMessage("Feed", FeedMapper("RSS")))
WiredEdges == [i \in 1..Len(FeedRequired) |-> Edge("0", "text-out", "Feed", FeedRequired[i])]
WiredGraph == [nodes |-> WiredNodes, edges |-> WiredEdges]

InitFeed ==
    /\ nodes = WiredNodes
    /\ edges = WiredEdges
    /\ currentNodeId = 1
    /\ LET r == Recompute(WiredGraph)
       IN /\ pipeCache = r.cache
          /\ heap = r.heap
          /\ calls = r.calls
          /\ given = r.given
          /\ produced = r.produced
    /\ pipeCacheValid = TRUE
    /\ pc = "idle"
    /\ queue = <<>>
    /\ pending = 0
    /\ lastOp = "renderEnd"
    /\ stale = {}
    /\ visited = KeyOrder(WiredNodes)
    /\ delivered = NoMessage
    /\ fetches = {}
    /\ config = EmptyFn
    /\ mounted = DOMAIN WiredNodes
    /\ effects = {}
    /\ used = DOMAIN WiredNodes
    /\ local = EmptyFn

NextFeed ==
    \/ Render
    \/ EffectRuns
    \/ UserAddsNode
    \/ UserRemovesNode
    \/ \E e \in Connections(FeedExtraTargets) :
          Connect(e, Len(FeedRequired) + MaxFeedExtra)
    \/ UserRemovesEdge
    \/ NodeSendsMessage

SpecFeed == InitFeed /\ [][NextFeed]_vars

\* ------------------------------------------------- HTML nodes that fetch
UserSubmitsUrl ==
    \E id \in DOMAIN nodes : \E url \in Urls : HtmlBlurValid(id, url)
UserLeavesFieldInvalid == \E id \in DOMAIN nodes : HtmlBlurInvalid(id)
FetchCompletes ==
    \E f \in fetches : \E m \in FetchResults(f.fromNode, f.url) : FetchSettles(f, m)

NextFetch ==
    \/ Render
    \/ EffectRuns
    \/ AddNode("htmlInputNode")
    \/ UserRemovesNode
    \/ UserSubmitsUrl
    \/ UserLeavesFieldInvalid
    \/ FetchCompletes

SpecFetch == Init /\ [][NextFetch]_vars

\* ----------------------------------------------------------------- a chain
\* The session after the user has added a Text node and two Regex nodes,
\* typed "a" into the Text node, an invalid expression into the first Regex
\* node and "." into the second, wired the Text node to the five required
\* handles of the Feed node, the first Regex node to the second and the
\* second to the optional `language` handle, and the editor has rendered.
\* edges beyond the seven of the chain
MaxChainExtra == 1
\* target handles of the Feed node the user connects to in SpecChain
ChainTargets == {"language", "title"}

ChainNodes ==
    SetPipeValue(
      SetPipeValue(
        SetPipeValue(
          SetPipeValue(
            applyNodeChanges(
                << [type |-> "add", item |-> newNode("0", "textInputNode")],
                   [type |-> "add", item |-> newNode("1", "regexNode")],
                   [type |-> "add", item |-> newNode("2", "regexNode")] >>,
                initialNodes),
            OkMessage("0", TextMapper("text-out", "a"))),
          ErrMessage("1", "Invalid regular expression")),
        OkMessage("2", RegexMapper("."))),
      OkMessage("Feed", FeedMapper("RSS")))
ChainEdges ==
    WiredEdges \o << Edge("1", "data-out", "2", "data-in"),
                     Edge("2", "data-out", "Feed", "language") >>
ChainGraph == [nodes |-> ChainNodes, edges |-> ChainEdges]

InitChain ==
    /\ nodes = ChainNodes
    /\ edges = ChainEdges
    /\ currentNodeId = 3
    /\ LET r == Recompute(ChainGraph)
       IN /\ pipeCache = r.cache
          /\ heap = r.heap
          /\ calls = r.calls
          /\ given = r.given
          /\ produced = r.produced
    /\ pipeCacheValid = TRUE
    /\ pc = "idle"
    /\ queue = <<>>
    /\ pending = 0
    /\ lastOp = "renderEnd"
    /\ stale = {}
    /\ visited = KeyOrder(ChainNodes)
    /\ delivered = NoMessage
    /\ fetches = {}
    /\ config = EmptyFn
    /\ mounted = DOMAIN ChainNodes
    /\ effects = {}
    /\ used = DOMAIN ChainNodes
    /\ local = EmptyFn

\* from here the user reconfigures the Regex nodes and rewires everything
\* but the five required handles
RegexNodeSendsMessage ==
    \E id \in {n \in DOMAIN nodes : nodes[n].type = "regexNode"} :
        \E m \in RegexMessages(id, Patterns \cup CapturePatterns) :
            CanHandle /\ handleNodeMessage(m) /\ NoFetch /\ NoEffect /\ NoInput
UserRemovesChainEdge ==
    \E i \in (Len(FeedRequired) + 1)..Len(edges) : RemoveEdge(i)

NextChain ==
    \/ Render
    \/ \E e \in Connections(ChainTargets) :
          Connect(e, Len(ChainEdges) + MaxChainExtra)
    \/ UserRemovesChainEdge
    \/ RegexNodeSendsMessage

SpecChain == InitChain /\ [][NextChain]_vars

\* ------------------------------------------------------------ demo nodes
\* The editor with demo input nodes, before anything is connected: the user
\* adds Demo and Text nodes, types into the Text nodes, switches the feed
\* type and removes nodes.  React renders after a state update and runs the
\* effects of a render once it is committed, hence the fairness conditions.
NextDemo ==
    \/ Render
    \/ EffectRuns
    \/ \E type \in {"demoInputNode", "textInputNode"} : AddNode(type)
    \/ UserRemovesNode
    \/ NodeSendsMessage

SpecDemo == Init /\ [][NextDemo]_vars /\ WF_vars(Render) /\ WF_vars(EffectRuns)

\* ------------------------------------------------- selecting and dragging
\* The editor with Text nodes connected to the Feed node, in which the user
\* also selects nodes and edges and drags nodes around.
UserSelectsNode == \E id \in DOMAIN nodes : \E selected \in BOOLEAN : SelectNode(id, selected)
UserMovesNode ==
    \E id \in DOMAIN nodes : \E type \in {"position", "dimensions"} : MoveNode(id, type)
UserSelectsEdge == \E i \in 1..Len(edges) : SelectEdge(i)

NextView ==
    \/ Render
    \/ EffectRuns
    \/ AddNode("textInputNode")
    \/ \E id \in DOMAIN nodes :
          CanHandle /\ handleNodeMessage(OkMessage(id, TextMapper("text-out", "a")))
                    /\ nodes[id].type = "textInputNode"
                    /\ NoFetch /\ NoEffect /\ NoInput
    \/ \E e \in Connections({"title"}) : Connect(e, MaxEdges)
    \/ UserSelectsNode
    \/ UserMovesNode
    \/ UserSelectsEdge

SpecView == Init /\ [][NextView]_vars

\* ------------------------------------------------- configuring Regex nodes
\* The editor with Regex nodes whose field the user fills in: with a valid
\* expression, an invalid one, or nothing.
RegexTexts == Patterns \cup InvalidPatterns \cup {""}
UserSubmitsRegex == \E id \in DOMAIN nodes : \E regex \in RegexTexts : RegexBlur(id, regex)

NextRegex ==
    \/ Render
    \/ EffectRuns
    \/ AddNode("regexNode")
    \/ UserSubmitsRegex

SpecRegex == Init /\ [][NextRegex]_vars

\* ================================================================ claims
\* the states in which the table belongs to the current nodes and edges:
\* during the recompute and after it
CacheCurrent == pc = "render" \/ (pc = "idle" /\ pipeCacheValid)

RequiredHandles(n) ==
    {h \in Range(nodes[n].data.handles.target) : ~h.optional}
Unmet(n, h) == h.id \notin DOMAIN given[n] \/ given[n][h.id] = <<>>
InEdges(n) == {i \in 1..Len(edges) : edges[i].target = n}
OutEdges(n) == {i \in 1..Len(edges) : edges[i].source = n}

\* C1: whenever the validity flag is true the table has an entry for every
\* node of the store and for no other id.
C1_OneEntryPerNode ==
    pipeCacheValid => DOMAIN pipeCache = DOMAIN nodes

C1_Witness ==
    /\ pipeCacheValid
    /\ lastOp = "renderEnd"
    /\ Cardinality(DOMAIN nodes) = 2
    /\ currentNodeId = 2
    /\ DOMAIN pipeCache = DOMAIN nodes

\* C2: loadCache(n) called twice in a row, nothing in between, returns the
\* same entry by value, and the second call changes nothing.
C2_SecondCallSame ==
    CacheCurrent =>
        \A n \in DOMAIN nodes :
            LET s1 == LoadCache(Graph, Store(pipeCache, heap, calls, given, produced), n, 0)
                s2 == LoadCache(Graph, [s1 EXCEPT !.ret = NoEntry], n, 0)
            IN s1.thrown = NoThrow =>
                   /\ s2.thrown = NoThrow
                   /\ EntryValue(s2.heap, s2.ret) = EntryValue(s1.heap, s1.ret)
                   /\ s2.cache = s1.cache
                   /\ s2.heap = s1.heap
                   /\ s2.calls = s1.calls

\* the first of the two calls computes an entry from two edges into one port
C2_Witness ==
    /\ pc = "render"
    /\ \E n \in DOMAIN nodes \ DOMAIN pipeCache :
          \E i, j \in InEdges(n) :
              /\ i # j
              /\ edges[i].targetHandle = edges[j].targetHandle
              /\ LoadCache(Graph, Store(pipeCache, heap, calls, given, produced),
                           n, 0).thrown = NoThrow

\* C3: between two clearings of the table the mapper of a node is invoked
\* at most once.
C3_MapperAtMostOnce ==
    \A n \in DOMAIN calls : Len(calls[n]) <= 1

\* a mapper that ran once although two edges and the loop asked for its node
C3_Witness ==
    /\ pipeCacheValid
    /\ \E n \in DOMAIN calls :
          Len(calls[n]) = 1 /\ Cardinality(OutEdges(n)) >= 2

\* C4: after a mutation and the recompute that follows it, the table is
\* what a recompute from an empty table yields for the current store.
C4_ReflectsStore ==
    (pc = "idle" /\ pipeCacheValid) =>
        LET r == Recompute(Graph)
        IN /\ r.thrown = NoThrow
           /\ CacheValue(pipeCache, heap) = CacheValue(r.cache, r.heap)

\* a value set by a message has reached a node two edges downstream
C4_Witness ==
    /\ pc = "idle" /\ pipeCacheValid
    /\ \E i, j \in 1..Len(edges) :
          /\ edges[i].target = edges[j].source
          /\ edges[j].target \in DOMAIN given
          /\ edges[j].targetHandle \in DOMAIN given[edges[j].target]
          /\ given[edges[j].target][edges[j].targetHandle] # <<>>

MutationOps == {"addNode", "removeNode", "addEdge", "removeEdge", "setPipeValue"}

PipeValueChanged ==
    \E n \in DOMAIN nodes \cap DOMAIN nodes' :
        nodes'[n].data.pipeValue # nodes[n].data.pipeValue

\* C5: every node add or remove, edge add or remove and pipe value message
\* leaves the flag false; the flag turns true only at the end of a
\* recompute that visited every node.
C5_InvalidatedByMutation ==
    [][ /\ (lastOp' \in MutationOps => ~pipeCacheValid')
        /\ ((DOMAIN nodes' # DOMAIN nodes \/ edges' # edges \/ PipeValueChanged)
               => ~pipeCacheValid')
        /\ ((~pipeCacheValid /\ pipeCacheValid')
               => /\ pc = "render" /\ queue = <<>>
                  /\ Range(visited) = DOMAIN nodes
                  /\ DOMAIN pipeCache = DOMAIN nodes) ]_vars

C5_Witness ==
    /\ lastOp = "removeEdge"
    /\ ~pipeCacheValid
    /\ pipeCache # EmptyFn

\* C6: a read that finds the flag false empties the table, then calls
\* loadCache once for each node of the store, then sets the flag: no entry
\* from before the mutation is left.
C6_FullRecompute ==
    [][ /\ ((pc = "idle" /\ pc' = "render") => pipeCache' = EmptyFn)
        /\ ((~pipeCacheValid /\ pipeCacheValid')
               => /\ stale' = {}
                  /\ Len(visited') = Cardinality(DOMAIN nodes)
                  /\ Range(visited') = DOMAIN nodes
                  /\ DOMAIN pipeCache' = DOMAIN nodes) ]_vars

\* a recompute has replaced a table that held entries
C6_Witness ==
    /\ lastOp = "renderStart"
    /\ currentNodeId >= 1
    /\ pipeCache = EmptyFn
    /\ Len(queue) >= 2

\* C7: an Ok node with a non-optional target handle whose input is absent
\* or empty gets the entry error "Missing input" and its mapper is not run.
C7_MissingInput ==
    CacheCurrent =>
        \A n \in DOMAIN pipeCache :
            (/\ nodes[n].data.pipeValue.kind = "Ok"
             /\ \E h \in RequiredHandles(n) : Unmet(n, h))
            => /\ pipeCache[n].kind = "error"
               /\ pipeCache[n].error = "Missing input"
               /\ n \notin DOMAIN calls

\* a required handle that is fed, but with an empty array
C7_Witness ==
    /\ CacheCurrent
    /\ \E n \in DOMAIN pipeCache :
          /\ nodes[n].data.pipeValue.kind = "Ok"
          /\ \E h \in RequiredHandles(n) :
                h.id \in DOMAIN given[n] /\ given[n][h.id] = <<>>
          /\ pipeCache[n].error = "Missing input"

OptionalHandles(n) ==
    {h \in Range(nodes[n].data.handles.target) : h.optional}

\* the edges into handle p of n whose upstream entry is an output that has
\* the edge's source handle
Feeding(n, p) ==
    {i \in InEdges(n) :
        /\ edges[i].targetHandle = p
        /\ edges[i].source \in DOMAIN pipeCache
        /\ pipeCache[edges[i].source].kind = "output"
        /\ edges[i].sourceHandle \in DOMAIN pipeCache[edges[i].source].output}

StoredInput(n, p) ==
    IF p \in DOMAIN pipeCache[n].input
    THEN [present |-> TRUE, values |-> heap[pipeCache[n].input[p]]]
    ELSE [present |-> FALSE, values |-> <<>>]

\* the sequences the mappers returned at the source handles of the edges
\* that feed handle p of n, concatenated in edge order
RECURSIVE ConcatProduced(_, _, _)
ConcatProduced(n, p, i) ==
    IF i = 0 THEN <<>>
    ELSE ConcatProduced(n, p, i - 1)
         \o (IF i \in Feeding(n, p)
             THEN produced[edges[i].source][edges[i].sourceHandle] ELSE <<>>)
ExpectedInput(n, p) ==
    [present |-> Feeding(n, p) # {}, values |-> ConcatProduced(n, p, Len(edges))]

\* C9: a target handle fed by exactly two edges, from two different nodes
\* whose entries are outputs, holds the first edge's upstream values followed
\* by the second edge's.
C9_TwoEdgesInOrder ==
    (pc = "idle" /\ pipeCacheValid) =>
        \A n \in DOMAIN pipeCache :
            \A i, j \in InEdges(n) :
                (/\ i < j
                 /\ edges[i].targetHandle = edges[j].targetHandle
                 /\ edges[i].source # edges[j].source
                 /\ Feeding(n, edges[i].targetHandle) = {i, j}
                 /\ {k \in InEdges(n) : edges[k].targetHandle = edges[i].targetHandle}
                        = {i, j})
                => StoredInput(n, edges[i].targetHandle).values
                       = produced[edges[i].source][edges[i].sourceHandle]
                         \o produced[edges[j].source][edges[j].sourceHandle]

\* C10: the input an entry holds at each target handle is the
\* concatenation, in edge order, of what the upstream mappers produced along
\* the edges feeding that handle, and nothing else.
C10_InputIsConcatenation ==
    (pc = "idle" /\ pipeCacheValid) =>
        \A n \in DOMAIN pipeCache :
            \A h \in Range(nodes[n].data.handles.target) :
                StoredInput(n, h.id) = ExpectedInput(n, h.id)

\* ------------------------------------------------------- shape of the graph
Dangling(i) ==
    edges[i].source \notin DOMAIN nodes \/ edges[i].target \notin DOMAIN nodes
NoDangling == \A i \in 1..Len(edges) : ~Dangling(i)

\* the nodes with an edge into a node of S
Sources(S) ==
    {edges[i].source : i \in {j \in 1..Len(edges) : edges[j].target \in S}}
    \cap DOMAIN nodes
RECURSIVE UpClosure(_, _)
UpClosure(S, k) == IF k = 0 THEN S ELSE UpClosure(S \cup Sources(S), k - 1)
\* the nodes from which a path of one or more edges leads to n
Ancestors(n) == UpClosure(Sources({n}), Cardinality(DOMAIN nodes))
OnCycle(n) == n \in Ancestors(n)
HasCycle == \E n \in DOMAIN nodes : OnCycle(n)

\* the number of edges of the longest path that ends at n (acyclic graphs)
RECURSIVE LongestInto(_, _)
LongestInto(n, fuel) ==
    IF fuel = 0 \/ Sources({n}) = {} THEN 0
    ELSE LET best == CHOOSE m \in Sources({n}) :
                        \A o \in Sources({n}) :
                            LongestInto(o, fuel - 1) <= LongestInto(m, fuel - 1)
         IN 1 + LongestInto(best, fuel - 1)
LongestPath(n) == LongestInto(n, Cardinality(DOMAIN nodes))

Kind(n) == nodes[n].data.pipeValue.kind
TargetHandle(n, p) == CHOOSE h \in Range(nodes[n].data.handles.target) : h.id = p
\* every edge into handle p of n comes from node a
FedOnlyBy(n, p, a) ==
    \A k \in InEdges(n) : edges[k].targetHandle = p => edges[k].source = a

\* C11: for edges A -> B -> C with A in the Err state, B Ok with the
\* non-optional handle of the first edge fed only by A, and C Ok with the
\* optional handle of the second edge fed only by B (its required handles
\* having input), B's entry is the error "Missing input" and C's entry is an
\* output; nodes in error never keep the recompute from giving every node its
\* entry.
C11_ErrorIsolation ==
    /\ pc = "crashed" => (HasCycle \/ ~NoDangling)
    /\ (pc = "idle" /\ pipeCacheValid) =>
        /\ DOMAIN pipeCache = DOMAIN nodes
        /\ \A i, j \in 1..Len(edges) :
             LET A == edges[i].source
                 B == edges[i].target
                 C == edges[j].target
             IN (/\ edges[j].source = B
                 /\ {A, B, C} \subseteq DOMAIN nodes
                 /\ Kind(A) = "Err" /\ Kind(B) = "Ok" /\ Kind(C) = "Ok"
                 /\ ~TargetHandle(B, edges[i].targetHandle).optional
                 /\ FedOnlyBy(B, edges[i].targetHandle, A)
                 /\ TargetHandle(C, edges[j].targetHandle).optional
                 /\ FedOnlyBy(C, edges[j].targetHandle, B)
                 /\ \A h \in RequiredHandles(C) : ~Unmet(C, h))
                => /\ pipeCache[B].kind = "error"
                   /\ pipeCache[B].error = "Missing input"
                   /\ pipeCache[C].kind = "output"

\* the chain the user rewired: Regex node 2 in error feeds Regex node 1,
\* which feeds the optional handle of the Feed node
C11_Witness ==
    /\ pc = "idle" /\ pipeCacheValid
    /\ lastOp = "renderEnd"
    /\ \E i, j \in 1..Len(edges) :
          /\ edges[i].source = "2" /\ edges[i].target = "1"
          /\ edges[j].source = "1" /\ edges[j].target = "Feed"
          /\ edges[j].targetHandle = "language"
          /\ FedOnlyBy("1", "data-in", "2")
          /\ FedOnlyBy("Feed", "language", "1")
    /\ Kind("2") = "Err" /\ Kind("1") = "Ok" /\ Kind("Feed") = "Ok"
    /\ pipeCache["1"].kind = "error"
    /\ pipeCache["1"].error = "Missing input"
    /\ pipeCache["Feed"].kind = "output"

\* the entry of a node whose pipe value is BadConfig or Err: the error of its
\* own state, computed without its mapper
OwnStateError(n) ==
    /\ Kind(n) = "BadConfig" =>
          /\ pipeCache[n].kind = "error"
          /\ pipeCache[n].error = "Node configuration is invalid"
          /\ n \notin DOMAIN calls
    /\ Kind(n) = "Err" =>
          /\ pipeCache[n].kind = "error"
          /\ pipeCache[n].error = nodes[n].data.pipeValue.error
          /\ n \notin DOMAIN calls

\* C12: a node in the BadConfig state has the entry error "Node
\* configuration is invalid" and a node in the Err state the entry error of
\* its message, whatever its inputs, and the entry's input is the
\* concatenation of what the edges into each handle deliver.
C12_OwnStateFirst ==
    (pc = "idle" /\ pipeCacheValid) =>
        \A n \in DOMAIN pipeCache :
            Kind(n) \in {"BadConfig", "Err"} =>
                /\ OwnStateError(n)
                /\ \A h \in Range(nodes[n].data.handles.target) :
                       StoredInput(n, h.id) = ExpectedInput(n, h.id)

\* the mapper of n, applied to the input it was invoked with, throws or
\* returns a bundle in which a source handle of n is missing
Faulted(n) ==
    LET r == ApplyMapper(nodes[n].data.pipeValue.mapper, calls[n][1])
    IN \/ r.thrown
       \/ \E h \in Range(nodes[n].data.handles.source) : h.id \notin DOMAIN r.out

\* C13: when the mapper of an Ok node throws, or returns a bundle without
\* one of the node's source handles, the node's entry is the error "Error in
\* node implementation", the render does not crash, and every node has its
\* entry after the recompute.
C13_ImplementationFault ==
    /\ pc = "crashed" => (HasCycle \/ ~NoDangling)
    /\ CacheCurrent =>
        \A n \in DOMAIN pipeCache \cap DOMAIN calls :
            Faulted(n)
            => /\ pipeCache[n].kind = "error"
               /\ pipeCache[n].error = "Error in node implementation"
               /\ pipeCacheValid => DOMAIN pipeCache = DOMAIN nodes

\* a Regex node was handed an undefined value (a capture group of the Regex
\* node before it that took no part in the match); the Feed node after it
\* has its output
C13_Witness ==
    /\ pc = "idle" /\ pipeCacheValid
    /\ \E n \in DOMAIN calls :
          /\ "data-in" \in DOMAIN calls[n][1]
          /\ undefined \in Range(calls[n][1]["data-in"])
          /\ pipeCache[n].error = "Error in node implementation"
          /\ \E j \in 1..Len(edges) : edges[j].source = n /\ edges[j].target = "Feed"
    /\ pipeCache["Feed"].kind = "output"

NoSelfLoop == \A i \in 1..Len(edges) : edges[i].source # edges[i].target
NoDuplicate ==
    \A i, j \in 1..Len(edges) :
        (/\ edges[i].source = edges[j].source
         /\ edges[i].sourceHandle = edges[j].sourceHandle
         /\ edges[i].target = edges[j].target
         /\ edges[i].targetHandle = edges[j].targetHandle) => i = j

\* C14: the edges never hold an edge from a node to itself nor two edges
\* with the same source, source handle, target and target handle, and an
\* onConnect that is rejected leaves the edges as they were.
C14_NoSelfLoopNoDuplicate ==
    /\ [](NoSelfLoop /\ NoDuplicate)
    /\ [][lastOp' = "connectRejected" => edges' = edges]_vars

\* a connection was rejected while edges exist
C14_Witness ==
    /\ lastOp = "connectRejected"
    /\ Len(edges) >= 2

CurrentStore == Store(pipeCache, heap, calls, given, produced)

\* C15: with an edge whose source or target is not a node, loadCache of
\* every node still returns an entry (unless a cycle keeps it from ending).
C15_DanglingIgnored ==
    (pc = "render" /\ ~NoDangling /\ ~HasCycle) =>
        \A n \in DOMAIN nodes :
            LET r == LoadCache(Graph, CurrentStore, n, 0)
            IN r.thrown = NoThrow /\ n \in DOMAIN r.cache

\* C16: once no fetch of an HTML node is in flight, the node's pipe value
\* is the one its latest configuration led to.
C16_LatestConfigurationWins ==
    \A n \in DOMAIN config \cap DOMAIN nodes :
        (\A f \in fetches : f.fromNode # n)
            => nodes[n].data.pipeValue = config[n].value

\* C17: with acyclic edges between existing nodes, loadCache of every node
\* returns an entry after nesting no deeper than the longest path that ends
\* at the node, the recompute gives every node an entry, and no render
\* crashes.
C17_TerminatesOnAcyclic ==
    (NoDangling /\ ~HasCycle) =>
        /\ pc # "crashed"
        /\ pc = "idle" =>
              /\ \A n \in DOMAIN nodes :
                    LET r == LoadCache(Graph, EmptyStore, n, 0)
                    IN /\ r.thrown = NoThrow
                       /\ n \in DOMAIN r.cache
                       /\ r.deep <= LongestPath(n)
              /\ LET all == Recompute(Graph)
                 IN all.thrown = NoThrow /\ DOMAIN all.cache = DOMAIN nodes

\* a path of two edges ends at the Feed node and the recompute is done
C17_Witness ==
    /\ pc = "idle" /\ pipeCacheValid
    /\ NoDangling /\ ~HasCycle
    /\ LongestPath("Feed") = 2
    /\ LoadCache(Graph, EmptyStore, "Feed", 0).deep = 2

\* the edge closes a cycle of two or more nodes
ClosesCycle(e) ==
    /\ e.source # e.target
    /\ e.target \in Ancestors(e.source)
IsDuplicate(e) == \E i \in 1..Len(edges) : edges[i] = e

\* C18: onConnect accepts a new edge that closes a cycle of two or more
\* nodes, and during a recompute no node on a cycle has or gets an entry:
\* loadCache for it throws (RangeError, when no edge dangles) instead of
\* returning.
C18_CycleNeverResolves ==
    /\ \A e \in Connections(SpecFeedTargets) :
          (ClosesCycle(e) /\ ~IsDuplicate(e)) => ~ConnectRejected(edges, e)
    /\ pc \in {"render", "crashed"} =>
          \A n \in DOMAIN nodes :
              OnCycle(n) =>
                  /\ n \notin DOMAIN pipeCache
                  /\ LET r == LoadCache(Graph, CurrentStore, n, 0)
                     IN /\ r.thrown # NoThrow
                        /\ n \notin DOMAIN r.cache
                        /\ NoDangling => r.thrown = "RangeError"

\* the user closed a cycle of two Regex nodes and the render ran into it
C18_Witness ==
    /\ pc = "crashed"
    /\ lastOp = "RangeError"
    /\ \E i, j \in 1..Len(edges) :
          /\ edges[i].source = edges[j].target
          /\ edges[i].target = edges[j].source
          /\ i < j
    /\ \E n \in DOMAIN nodes : OnCycle(n) /\ n \notin DOMAIN pipeCache

\* C19: a message changes the pipe value of the node it names to the value
\* it carries and nothing else: not that node's handles, id or type, not
\* another node, not the edges; and the handles of a node stay those it was
\* created with.
C19_OnlyThatPipeValue ==
    /\ [](\A n \in DOMAIN nodes : nodes[n].data.handles = nodeHandles[nodes[n].type])
    /\ [][ /\ \A n \in DOMAIN nodes \cap DOMAIN nodes' :
                 nodes'[n].data.handles = nodes[n].data.handles
           /\ delivered' # NoMessage =>
                 LET n == delivered'.fromNode
                 IN /\ n \in DOMAIN nodes
                    /\ DOMAIN nodes' = DOMAIN nodes
                    /\ edges' = edges
                    /\ nodes'[n].data.pipeValue = MessageValue(delivered')
                    /\ nodes'[n].data.handles = nodes[n].data.handles
                    /\ nodes'[n].id = nodes[n].id
                    /\ nodes'[n].type = nodes[n].type
                    /\ \A m \in DOMAIN nodes \ {n} : nodes'[m] = nodes[m] ]_vars

\* a node that was Ok took an Err message while another node and an edge
\* were there to be changed
C19_Witness ==
    /\ delivered # NoMessage
    /\ delivered.kind = "Err"
    /\ Kind(delivered.fromNode) = "Err"
    /\ Cardinality(DOMAIN nodes) = 3
    /\ \E n \in DOMAIN nodes \ {delivered.fromNode} : Kind(n) = "Ok"
    /\ Len(edges) >= 1

\* C20: every output entry of the table holds the output its node's mapper
\* returns for the input the entry holds, and that input is the bundle the
\* mapper was invoked with.
C20_OutputIsTransformOfInput ==
    CacheCurrent =>
        \A n \in DOMAIN pipeCache :
            pipeCache[n].kind = "output" =>
                LET e == EntryValue(heap, pipeCache[n])
                IN /\ ApplyMapper(nodes[n].data.pipeValue.mapper, e.input)
                          = Returned(e.output)
                   /\ e.input = calls[n][1]

\* what the claims expect of the message a fetch helper completes with
ExpectedOfFetch(id, outcome, message) ==
    /\ message.fromNode = id
    /\ message.kind \in {"Ok", "Err"}
    /\ message.kind = "Ok" <=>
          (outcome.kind = "response" /\ outcome.ok /\ outcome.body.read)
    /\ message.kind = "Ok" => message.value = outcome.body.text
    /\ (outcome.kind = "response" /\ ~outcome.ok) =>
          message.error = ToString(outcome.status) \o " " \o outcome.statusText
    /\ (outcome.kind = "rejected" /\ outcome.error.type = "Error") =>
          message.error = outcome.error.message
    /\ (outcome.kind = "response" /\ outcome.ok /\ ~outcome.body.read) =>
          message.error = outcome.body.error.message

\* C21: client_fetch and server_fetch always complete with a message and
\* never with a rejection: the message names the node id passed in; it is Ok,
\* carrying the body text, only if the response was ok and its body was read;
\* otherwise it is Err with "<status> <statusText>" for a response that is not
\* ok and the message of the fault for a network or body-read failure.
C21_FetchAlwaysDelivers ==
    \A id \in DOMAIN nodes : \A url \in Urls : \A outcome \in SettledOutcomes(url) :
        \A promise \in {client_fetch(id, outcome), server_fetch(id, outcome)} :
            /\ promise.state = "fulfilled"
            /\ ExpectedOfFetch(id, outcome, promise.value)

\* a fetch whose body could not be read has completed with Err for its node
C21_Witness ==
    /\ lastOp = "setPipeValue"
    /\ delivered # NoMessage
    /\ delivered.kind = "Err"
    /\ delivered.error = BodyError.message
    /\ nodes[delivered.fromNode].type = "htmlInputNode"
    /\ Kind(delivered.fromNode) = "Err"

\* every id a node of a session can have
NodeIds == {"Feed"} \cup {ToString(i) : i \in 0..(MaxNodes - 1)}
\* the node types whose component sends Ok by itself
SelfConfigured == {"feedOutputNode", "demoInputNode"}

\* C22: every node is created with pipe value BadConfig and keeps it until
\* the first update message for it is applied; a Feed output node and a Demo
\* input node send an Ok update after they are added, so each of them
\* eventually has an Ok value without any input of the user (unless the user
\* removes the node before that).
C22_BadConfigUntilUpdate ==
    /\ \A n \in DOMAIN nodes : nodes[n].data.pipeValue = BadConfigPipe
    /\ [][ /\ \A n \in DOMAIN nodes' \ DOMAIN nodes :
                 nodes'[n].data.pipeValue = BadConfigPipe
           /\ \A n \in DOMAIN nodes' \cap DOMAIN nodes :
                 nodes'[n].data.pipeValue # nodes[n].data.pipeValue =>
                     (delivered' # NoMessage /\ delivered'.fromNode = n) ]_vars
    /\ \A n \in NodeIds :
          (n \in DOMAIN nodes /\ nodes[n].type \in SelfConfigured)
              ~> (n \notin DOMAIN nodes \/ Kind(n) = "Ok")

\* a Demo node and the Feed node have both become Ok, and the table has been
\* recomputed since
C22_Witness ==
    /\ pc = "idle" /\ pipeCacheValid /\ effects = {}
    /\ Kind("Feed") = "Ok"
    /\ \E n \in DOMAIN nodes :
          /\ nodes[n].type = "demoInputNode"
          /\ Kind(n) = "Ok"
          /\ n \in DOMAIN pipeCache /\ pipeCache[n].kind = "output"

\* the handler calls that report changes which neither add nor remove
ViewOps == {"selectNode", "moveNode", "selectEdge"}

\* C23: a node change or edge change that is neither an addition nor a
\* removal (a position, selection or dimension change) leaves the validity
\* flag and the table as they are and invokes no mapper, so that the render
\* after it recomputes nothing, however many such changes occur in a row.
C23_ViewChangesKeepCache ==
    [][ lastOp' \in ViewOps =>
           UNCHANGED <<pipeCacheValid, pipeCache, heap, calls, pc, pending>> ]_vars

\* both nodes of a two-node graph have been selected after the last
\* recompute, whose table is still valid
C23_Witness ==
    /\ lastOp \in ViewOps
    /\ pc = "idle" /\ pipeCacheValid
    /\ Len(edges) > 0
    /\ \E n \in DOMAIN nodes : \E m \in DOMAIN nodes \ {n} :
          nodes[n].selected /\ nodes[m].selected
    /\ \E n \in DOMAIN pipeCache : pipeCache[n].kind = "output"

\* C24: loadCache(n) stores new entries only for n and for those ancestors of
\* n that had none; every entry the table already held, the outputs of the
\* nodes upstream of n in particular, is the same by value after the call,
\* also when several edges into one target port are gathered.
C24_ResolveKeepsOtherEntries ==
    CacheCurrent =>
        \A n \in DOMAIN nodes :
            LET s1 == LoadCache(Graph, CurrentStore, n, 0)
            IN s1.thrown = NoThrow =>
                   /\ DOMAIN s1.cache \ DOMAIN pipeCache \subseteq {n} \cup Ancestors(n)
                   /\ \A m \in DOMAIN pipeCache :
                         EntryValue(s1.heap, s1.cache[m]) = EntryValue(heap, pipeCache[m])

\* the orders in which the recompute loop could visit the node ids
VisitOrders ==
    {order \in [1..Cardinality(DOMAIN nodes) -> DOMAIN nodes] :
        \A i, j \in DOMAIN order : order[i] = order[j] => i = j}

\* C25: for a fixed acyclic graph with fixed pipe values, the table a full
\* recompute produces is the same by value whatever the order in which the
\* node ids are visited.
C25_OrderIndependent ==
    (pc = "idle" /\ pipeCacheValid /\ ~HasCycle /\ NoDangling) =>
        \A order \in VisitOrders :
            LET r == LoadAll(Graph, EmptyStore, order)
            IN /\ r.thrown = NoThrow
               /\ CacheValue(r.cache, r.heap) = CacheValue(pipeCache, heap)

\* C26: an update message whose fromNode is not in the node store (the node
\* was removed while its fetch was still in flight) is applied without a
\* fault, and leaves the set of nodes, every pipe value and the edges as
\* they were.
C26_UnknownNodeIgnored ==
    [][ (delivered' # NoMessage /\ delivered'.fromNode \notin DOMAIN nodes) =>
            /\ pc' # "crashed"
            /\ nodes' = nodes
            /\ edges' = edges ]_vars

\* C27: every addNode gives the new node an id no node has had before: an id
\* is not reused after its node was removed, it is never "Feed", and no
\* addNode overwrites an existing node.
C27_FreshIds ==
    /\ [](DOMAIN nodes \subseteq used)
    /\ [][ /\ \A id \in DOMAIN nodes' \ DOMAIN nodes : id \notin used /\ id # "Feed"
           /\ lastOp' = "addNode" =>
                 /\ Cardinality(DOMAIN nodes') = Cardinality(DOMAIN nodes) + 1
                 /\ \A n \in DOMAIN nodes : nodes'[n] = nodes[n] ]_vars

\* a node has been added after the node added first was removed
C27_Witness ==
    /\ lastOp = "addNode"
    /\ "0" \in used /\ "0" \notin DOMAIN nodes
    /\ "1" \in DOMAIN nodes
    /\ nodes["1"].data.pipeValue = BadConfigPipe

\* C28: no edge has the Feed output node as its source, so the Feed node is
\* never upstream of another node.
C28_FeedNeverSource ==
    /\ \A i \in 1..Len(edges) : edges[i].source # "Feed"
    /\ \A n \in DOMAIN nodes : "Feed" \notin Ancestors(n)

\* edges have been drawn into the Feed node and into a Regex node, whose
\* target handle a connection from the Feed node would have to end at
C28_Witness ==
    /\ lastOp = "addEdge"
    /\ \E i \in 1..Len(edges) : edges[i].target = "Feed"
    /\ \E i \in 1..Len(edges) :
          /\ edges[i].target \in DOMAIN nodes
          /\ nodes[edges[i].target].type = "regexNode"
    /\ Kind("Feed") = "Ok"

\* the text last submitted in the field of Regex node n is an expression
\* that is not empty and compiles
SubmittedValid(n) ==
    /\ Local(n).submitted # null
    /\ Local(n).submitted # ""
    /\ Compiles(Local(n).submitted)

\* C29: the value a Regex node has delivered is Ok only while the pattern
\* the user submitted last is non-empty and valid: once the user has
\* submitted an empty or an invalid pattern and the node's effect has run,
\* the node's value is BadConfig or Err, never an Ok built from an earlier
\* pattern.
C29_ReadyOnlyWhileValid ==
    \A n \in DOMAIN nodes \cap mounted :
        (nodes[n].type = "regexNode" /\ n \notin effects) =>
            /\ Kind(n) = "Ok" => SubmittedValid(n)
            /\ Kind(n) = "Ok" =>
                  nodes[n].data.pipeValue.mapper = RegexMapper(Local(n).submitted)

\* nothing is left to do until the user acts again
Quiescent == pc = "idle" /\ pipeCacheValid /\ effects = {}

\* C30: a Demo input node sends an update only after a render in which its
\* value is not Ok, and the update is Ok; once its value is Ok it sends
\* nothing more, so that the loop of render, update, invalidation and render
\* comes to rest again and again instead of sustaining itself.
C30_DemoQuiesces ==
    /\ [][ \A n \in DOMAIN nodes :
              ( /\ nodes[n].type = "demoInputNode"
                /\ delivered' # NoMessage
                /\ delivered'.fromNode = n )
              => /\ n \in effects
                 /\ Kind(n) # "Ok"
                 /\ delivered'.kind = "Ok" ]_vars
    /\ []<>Quiescent

\* the effect of a Demo node has run after a render in which the node was
\* Ok, and has sent nothing
C30_Witness ==
    /\ Quiescent
    /\ lastOp = "effect"
    /\ delivered = NoMessage
    /\ \E n \in DOMAIN nodes :
          /\ nodes[n].type = "demoInputNode"
          /\ Kind(n) = "Ok"
          /\ pipeCache[n].kind = "output"

====
